---------------------------- MODULE Spec2Model ----------------------------
(***************************************************************************)
(* CodePulse: the workspace scanner of the extension host                  *)
(* (PRReviewerWebviewProvider.analyzeWorkspace) as a state machine.        *)
(*                                                                         *)
(* A run is one invocation of analyzeWorkspace.  JavaScript runs a         *)
(* handler to completion between two awaits, so every action below is the  *)
(* code from one suspension point (or from the call) up to the next await  *)
(* or the end of the function.  The host (file discovery, file reading,    *)
(* the clock) is the environment: its answers are chosen with \E.          *)
(*                                                                         *)
(* Specifications: Spec (every workspace, the runs overlapping freely),    *)
(* SpecOneByOne (every workspace, the scans one after the other),          *)
(* SpecLive (small workspaces, the host answers every request),            *)
(* SpecChannel (small workspaces, the channel to the webview recorded),    *)
(* SpecWebview (one workspace, the provider and the App component of the   *)
(* webview together), SpecInbox (the App component alone, sent any short   *)
(* sequence of messages).                                                  *)
(***************************************************************************)
EXTENDS Integers, Sequences, FiniteSets, TLC

(***************************************************************************)
(* Bounds of the model.                                                    *)
(***************************************************************************)
\* most files the workspace holds
MaxFiles == 2
\* most invocations of analyzeWorkspace in one behaviour
MaxRuns == 2
\* most files of the workspace where the channel is recorded (SpecChannel)
MaxChannelFiles == 1
\* most messages the webview is sent where it is taken alone (SpecInbox)
MaxMessages == 3

(***************************************************************************)
(* Constants of the program.                                               *)
(***************************************************************************)
GodFileLines == 500
StubFileLines == 5
SecurityWeight == 15
GodFileWeight == 5
PerformanceWeight == 8
UnusedWeight == 2
LoopProgressShare == 85
FullProgress == 100
MaxScore == 100
MatchPreview == 40

Min(a, b) == IF a < b THEN a ELSE b
Max(a, b) == IF a > b THEN a ELSE b

(***************************************************************************)
(* The host's files.  A text is described by what the scanner's regular    *)
(* expressions find in it: sec[p] is the sequence of the matches of        *)
(* secPatterns[p] (each match given by its length), nested is the number   *)
(* of matches of the nested-loop expression, evals the number of           *)
(* occurrences of eval( .  A path is a directory (a sequence of segments)  *)
(* and a base name (stem and extension); abs tells whether it starts at    *)
(* the file system root.                                                   *)
(***************************************************************************)
WorkspaceRoot == <<"home", "ws">>

Path(abs, dir, stem, ext) ==
    [abs |-> abs, dir |-> dir, base |-> [stem |-> stem, ext |-> ext]]

File(dir, stem, ext, lines, size, sec, nested, evals) ==
    [uri |-> Path(TRUE, WorkspaceRoot \o dir, stem, ext), lines |-> lines,
     size |-> size, sec |-> sec, nested |-> nested, evals |-> evals]

NoSecrets == << <<>>, <<>>, <<>> >>

FileUniverse ==
    { File(<<>>, "empty", "ts", 0, 0, NoSecrets, 0, 0),
      File(<<"src">>, "four", "py", 4, 60, NoSecrets, 0, 0),
      File(<<"src">>, "five", "vue", 5, 200, << <<45>>, <<>>, <<30>> >>, 2, 1),
      File(<<"src">>, "limit", "tsx", 500, 9000, << <<23>>, <<>>, <<>> >>, 0, 0),
      File(<<"src">>, "god", "tsx", 501, 9100, NoSecrets, 0, 3),
      File(<<"lib">>, "leaky", "js", 640, 20000,
           << <<19, 52, 19>>, <<13>>, <<23, 60>> >>, 3, 2) }

SeqsOfDistinct(S, n) ==
    { s \in UNION { [1..k -> S] : k \in 0..n } :
        \A i, j \in DOMAIN s : s[i] = s[j] => i = j }

(***************************************************************************)
(* path.basename, path.extname(...).replace('.', '') and                   *)
(* vscode.workspace.asRelativePath.                                        *)
(***************************************************************************)
IsPrefix(p, s) == Len(p) <= Len(s) /\ SubSeq(s, 1, Len(p)) = p

basename(p) == p.base

extname(p) == p.base.ext

\* a variant that hands the path back as it is (file.fsPath used for the
\* findings too)
asRelativePathUnchanged(folders, p) == p

asRelativePath(folders, p) ==
    IF \E f \in DOMAIN folders : IsPrefix(folders[f].root, p.dir)
    THEN LET f == CHOOSE f \in DOMAIN folders : IsPrefix(folders[f].root, p.dir)
             r == folders[f].root
         IN  [abs |-> FALSE, dir |-> SubSeq(p.dir, Len(r) + 1, Len(p.dir)),
              base |-> p.base]
    ELSE p

(***************************************************************************)
(* State.                                                                  *)
(***************************************************************************)
VARIABLES
    workspaceFolders,   \* vscode.workspace.workspaceFolders ( <<>> : none )
    workspaceFiles,     \* what findFiles answers, in its order
    view,               \* this._view is set
    runs,               \* the invocations of analyzeWorkspace, in call order
    channel,            \* the messages posted to the webview, in order, as
                        \* far as they are recorded (SpecChannel)
    app                 \* the state of the webview's App component, as far
                        \* as it is followed (SpecWebview)

vars == <<workspaceFolders, workspaceFiles, view, runs, channel, app>>

(***************************************************************************)
(* The messages analyzeWorkspace posts to the webview.                     *)
(***************************************************************************)
AnalysisStarted == [type |-> "analysisStarted"]
Progress(v) == [type |-> "progress", value |-> v]
AnalysisResult(d) == [type |-> "analysisResult", data |-> d]
AnalysisFailed == [type |-> "analysisFailed"]

\* new Date().toLocaleTimeString(): the host's clock, read when a run ends
Clock == {"09:00:00", "09:00:01"}

(***************************************************************************)
(* The pure parts of analyzeWorkspace.                                     *)
(***************************************************************************)
\* a variant that truncates where the code rounds (Math.floor for Math.round)
progressPctFloor(progress, n) == (LoopProgressShare * progress) \div n

\* Math.round((progress / files.length) * 85): round half up.  The double
\* arithmetic of the code gives the exact quotient rounded for every
\* files.length below 10 (at 10 files, 7 / 10 * 85 is 59.499... in doubles).
progressPct(progress, n) ==
    (2 * LoopProgressShare * progress + n) \div (2 * n)

\* a variant with the threshold included (>= for >)
isGodFileInclusive(lines) == lines >= GodFileLines

isGodFile(lines) == lines > GodFileLines

\* a variant without the test lines > 0
isUnusedFileWithEmpty(lines) == lines < StubFileLines

isUnusedFile(lines) == lines < StubFileLines /\ lines > 0

\* matches[0].substring(0, 40) + '...' : a string, given by its length
matchPreview(matches) == Min(matches[1], MatchPreview) + 1

RECURSIVE secretFindingsPerMatch(_, _, _)
\* a variant that reports every match of a pattern, not the first only
secretFindingsPerMatch(f, relativePath, p) ==
    IF p > Len(f.sec) THEN <<>>
    ELSE [m \in DOMAIN f.sec[p] |->
            [file |-> relativePath, line |-> 0,
             match |-> Min(f.sec[p][m], MatchPreview) + 1]]
         \o secretFindingsPerMatch(f, relativePath, p + 1)

RECURSIVE secretFindings(_, _, _)
\* for (const pattern of secPatterns) from pattern p on
secretFindings(f, relativePath, p) ==
    IF p > Len(f.sec) THEN <<>>
    ELSE (IF f.sec[p] # <<>>
          THEN <<[file |-> relativePath, line |-> 0,
                  match |-> matchPreview(f.sec[p])]>>
          ELSE <<>>)
         \o secretFindings(f, relativePath, p + 1)

\* a variant that counts the matches of eval( as it counts nested loops
performanceFindingsCountingEvals(f, relativePath) ==
    (IF f.nested > 0
     THEN <<[file |-> relativePath, count |-> f.nested, type |-> "Nested Loops"]>>
     ELSE <<>>)
    \o
    (IF f.evals > 0
     THEN <<[file |-> relativePath, count |-> f.evals, type |-> "eval() usage"]>>
     ELSE <<>>)

\* lines 164-173: the two performance detectors
performanceFindings(f, relativePath) ==
    (IF f.nested > 0
     THEN <<[file |-> relativePath, count |-> f.nested, type |-> "Nested Loops"]>>
     ELSE <<>>)
    \o
    (IF f.evals > 0
     THEN <<[file |-> relativePath, count |-> 1, type |-> "eval() usage"]>>
     ELSE <<>>)

\* a variant with the weights of god files and performance findings exchanged
deductionsSwapped(securityIssues, godFiles, performanceIssues, unusedFiles) ==
    Len(securityIssues) * SecurityWeight
    + Len(godFiles) * PerformanceWeight
    + Len(performanceIssues) * GodFileWeight
    + Len(unusedFiles) * UnusedWeight

\* a variant that forgets the near-empty files
deductionsWithoutUnused(securityIssues, godFiles, performanceIssues, unusedFiles) ==
    Len(securityIssues) * SecurityWeight
    + Len(godFiles) * GodFileWeight
    + Len(performanceIssues) * PerformanceWeight

deductions(securityIssues, godFiles, performanceIssues, unusedFiles) ==
    Len(securityIssues) * SecurityWeight
    + Len(godFiles) * GodFileWeight
    + Len(performanceIssues) * PerformanceWeight
    + Len(unusedFiles) * UnusedWeight

\* a variant without Math.max(0, ...)
healthScoreNoFloor(d) == Min(MaxScore, MaxScore - d)

healthScore(d) == Max(0, Min(MaxScore, MaxScore - d))

(***************************************************************************)
(* One invocation of analyzeWorkspace.  pc is where it stands:             *)
(* "findFiles" and "openTextDocument" are its two awaits, "done" is the    *)
(* end of the try block, "failed" the end of the catch block.  posted is   *)
(* the sequence of the postMessage calls it has made.  raisedAt records    *)
(* the host's failure: -1 while no await of the run has rejected, else the *)
(* value of progress when one did (0: findFiles).  endedBefore records    *)
(* which earlier runs had ended ("done" or "failed") when the run was      *)
(* called.                                                                 *)
(***************************************************************************)
post(run, msg) == [run EXCEPT !.posted = Append(@, msg)]

\* a variant whose accumulators are fields of the provider, cleared only by
\* a scan that ends well: a call after a failed scan goes on from what the
\* failed scan had gathered
startedOnLeftovers(folders) ==
    LET last == IF runs # <<>> /\ runs[Len(runs)].pc = "failed"
                THEN runs[Len(runs)]
                ELSE [totalLines |-> 0, godFiles |-> <<>>, securityIssues |-> <<>>,
                      performanceIssues |-> <<>>, unusedFiles |-> <<>>,
                      allFiles |-> <<>>]
    IN  [pc |-> "findFiles",
         posted |-> <<AnalysisStarted>>,
         workspaceName |-> IF folders # <<>> THEN folders[1].name ELSE "Unknown",
         raisedAt |-> -1,
         endedBefore |-> {r \in DOMAIN runs : runs[r].pc \in {"done", "failed"}},
         files |-> <<>>, progress |-> 0, totalLines |-> last.totalLines,
         godFiles |-> last.godFiles, securityIssues |-> last.securityIssues,
         performanceIssues |-> last.performanceIssues,
         unusedFiles |-> last.unusedFiles, allFiles |-> last.allFiles]

\* lines 106-116: the call, up to the await of findFiles
started(folders) ==
    [pc |-> "findFiles",
     posted |-> <<AnalysisStarted>>,
     workspaceName |-> IF folders # <<>> THEN folders[1].name ELSE "Unknown",
     raisedAt |-> -1,
     endedBefore |-> {r \in DOMAIN runs : runs[r].pc \in {"done", "failed"}},
     files |-> <<>>, progress |-> 0, totalLines |-> 0,
     godFiles |-> <<>>, securityIssues |-> <<>>, performanceIssues |-> <<>>,
     unusedFiles |-> <<>>, allFiles |-> <<>>]

\* a variant whose totalLines is a field of the provider, never cleared:
\* each scan adds its lines to those of the scans that ended before it
scannedOntoOldTotal(run, folders, f) ==
    LET lines == f.lines
        relativePath == asRelativePath(folders, f.uri)
        fd == [name |-> basename(f.uri), path |-> f.uri, lines |-> lines,
               size |-> f.size, ext |-> extname(f.uri)]
        old == IF run.allFiles = <<>> /\ run.endedBefore # {}
               THEN runs[CHOOSE r \in run.endedBefore :
                              \A q \in run.endedBefore : q <= r].totalLines
               ELSE 0
    IN  [run EXCEPT
           !.totalLines = @ + old + lines,
           !.allFiles = Append(@, fd),
           !.godFiles = IF isGodFile(lines) THEN Append(@, fd) ELSE @,
           !.unusedFiles = IF isUnusedFile(lines) THEN Append(@, fd) ELSE @,
           !.securityIssues = @ \o secretFindings(f, relativePath, 1),
           !.performanceIssues = @ \o performanceFindings(f, relativePath)]

\* a variant whose secret detector keeps state from file to file: once a
\* file has given a finding, the later files of the scan are not searched
scannedUntilFirstSecret(run, folders, f) ==
    LET lines == f.lines
        relativePath == asRelativePath(folders, f.uri)
        fd == [name |-> basename(f.uri), path |-> f.uri, lines |-> lines,
               size |-> f.size, ext |-> extname(f.uri)]
    IN  [run EXCEPT
           !.totalLines = @ + lines,
           !.allFiles = Append(@, fd),
           !.godFiles = IF isGodFile(lines) THEN Append(@, fd) ELSE @,
           !.unusedFiles = IF isUnusedFile(lines) THEN Append(@, fd) ELSE @,
           !.securityIssues = IF @ = <<>>
                              THEN secretFindings(f, relativePath, 1) ELSE @,
           !.performanceIssues = @ \o performanceFindings(f, relativePath)]

\* a variant that lists a god file or a stub by its workspace-relative path,
\* a record allFiles does not hold
scannedListsApart(run, folders, f) ==
    LET lines == f.lines
        relativePath == asRelativePath(folders, f.uri)
        fd == [name |-> basename(f.uri), path |-> f.uri, lines |-> lines,
               size |-> f.size, ext |-> extname(f.uri)]
        listed == [fd EXCEPT !.path = relativePath]
    IN  [run EXCEPT
           !.totalLines = @ + lines,
           !.allFiles = Append(@, fd),
           !.godFiles = IF isGodFile(lines) THEN Append(@, listed) ELSE @,
           !.unusedFiles = IF isUnusedFile(lines) THEN Append(@, listed) ELSE @,
           !.securityIssues = @ \o secretFindings(f, relativePath, 1),
           !.performanceIssues = @ \o performanceFindings(f, relativePath)]

\* a variant whose lists are fields of the provider, set to [] by each call:
\* every run appends to the lists the latest call has made
scannedIntoShared(run, folders, f) ==
    LET lines == f.lines
        relativePath == asRelativePath(folders, f.uri)
        fd == [name |-> basename(f.uri), path |-> f.uri, lines |-> lines,
               size |-> f.size, ext |-> extname(f.uri)]
        shared == runs[Len(runs)]
    IN  [run EXCEPT
           !.totalLines = @ + lines,
           !.allFiles = Append(shared.allFiles, fd),
           !.godFiles = IF isGodFile(lines) THEN Append(shared.godFiles, fd)
                        ELSE shared.godFiles,
           !.unusedFiles = IF isUnusedFile(lines)
                           THEN Append(shared.unusedFiles, fd)
                           ELSE shared.unusedFiles,
           !.securityIssues = shared.securityIssues
                              \o secretFindings(f, relativePath, 1),
           !.performanceIssues = shared.performanceIssues
                                 \o performanceFindings(f, relativePath)]

\* lines 131-173: the body of the loop after the document has been opened
scanned(run, folders, f) ==
    LET lines == f.lines
        relativePath == asRelativePath(folders, f.uri)
        fd == [name |-> basename(f.uri), path |-> f.uri, lines |-> lines,
               size |-> f.size, ext |-> extname(f.uri)]
    IN  [run EXCEPT
           !.totalLines = @ + lines,
           !.allFiles = Append(@, fd),
           !.godFiles = IF isGodFile(lines) THEN Append(@, fd) ELSE @,
           !.unusedFiles = IF isUnusedFile(lines) THEN Append(@, fd) ELSE @,
           !.securityIssues = @ \o secretFindings(f, relativePath, 1),
           !.performanceIssues = @ \o performanceFindings(f, relativePath)]

\* a variant whose unusedExports is a placeholder, as circularDeps is
reportWithoutUnusedExports(run, now) ==
    [healthScore |-> healthScore(deductions(run.securityIssues, run.godFiles,
                                            run.performanceIssues, run.unusedFiles)),
     workspaceName |-> run.workspaceName,
     godFiles |-> run.godFiles,
     securityIssues |-> run.securityIssues,
     performanceIssues |-> run.performanceIssues,
     unusedFiles |-> run.unusedFiles,
     allFiles |-> run.allFiles,
     totalFiles |-> Len(run.files),
     totalLines |-> run.totalLines,
     unusedExports |-> 0,
     circularDeps |-> 0,
     scanProgress |-> FullProgress,
     lastScanned |-> now]

\* lines 185-201: the payload of analysisResult
report(run, now) ==
    [healthScore |-> healthScore(deductions(run.securityIssues, run.godFiles,
                                            run.performanceIssues, run.unusedFiles)),
     workspaceName |-> run.workspaceName,
     godFiles |-> run.godFiles,
     securityIssues |-> run.securityIssues,
     performanceIssues |-> run.performanceIssues,
     unusedFiles |-> run.unusedFiles,
     allFiles |-> run.allFiles,
     totalFiles |-> Len(run.files),
     totalLines |-> run.totalLines,
     unusedExports |-> Len(run.unusedFiles),
     circularDeps |-> 0,
     scanProgress |-> FullProgress,
     lastScanned |-> now]

\* a variant that posts the result before the last progress event
finishedResultFirst(run, now) ==
    [post(post(run, AnalysisResult(report(run, now))), Progress(FullProgress))
       EXCEPT !.pc = "done"]

\* a variant that posts the result without the last progress event
finishedWithoutProgress(run, now) ==
    [post(run, AnalysisResult(report(run, now))) EXCEPT !.pc = "done"]

\* a variant that reports the loop's share once the loop has ended, even
\* when the loop had nothing to do
finishedAfterLoopShare(run, now) ==
    [post(post(post(run, Progress(LoopProgressShare)), Progress(FullProgress)),
          AnalysisResult(report(run, now)))
       EXCEPT !.pc = "done"]

\* lines 176-202: after the loop
finished(run, now) ==
    [post(post(run, Progress(FullProgress)), AnalysisResult(report(run, now)))
       EXCEPT !.pc = "done"]

\* lines 126-131 and 176-202: the head of the loop: the next file, up to
\* the await of openTextDocument, or the end of the loop
loop(run, now) ==
    IF run.progress < Len(run.files)
    THEN [post(run, Progress(progressPct(run.progress + 1, Len(run.files))))
            EXCEPT !.progress = @ + 1, !.pc = "openTextDocument"]
    ELSE finished(run, now)

\* a variant whose catch block reports the failure and lets the run go on
caughtKeepsRunning(run) == post(run, AnalysisFailed)

\* a variant whose try/catch is inside the loop: a file that cannot be read
\* is skipped and the scan goes on
caughtSkipsFile(run) ==
    IF run.pc = "openTextDocument"
    THEN loop(run, CHOOSE now \in Clock : TRUE)
    ELSE [post(run, AnalysisFailed) EXCEPT !.pc = "failed"]

\* a variant whose catch block shows the error to the user and posts nothing
caughtSilently(run) == [run EXCEPT !.pc = "failed"]

\* lines 204-208: the catch block
caught(run) == [post(run, AnalysisFailed) EXCEPT !.pc = "failed"]

(***************************************************************************)
(* The webview (App.tsx).  The state of the App component: its useState    *)
(* cells data, scanning, progress, history, hasAlert and scanned; timers   *)
(* is the number of the setTimeout callbacks of line 147 that are pending, *)
(* handled the number of messages of the channel the handler has been      *)
(* called with, and sent the set of the messages posted to the host by     *)
(* openFile.                                                               *)
(***************************************************************************)
\* App.tsx lines 57-63
EMPTY_DATA ==
    [healthScore |-> 0, workspaceName |-> "CodePulse Engine...",
     godFiles |-> <<>>, securityIssues |-> <<>>, performanceIssues |-> <<>>,
     unusedFiles |-> <<>>, allFiles |-> <<>>,
     totalFiles |-> 0, totalLines |-> 0, unusedExports |-> 0,
     circularDeps |-> 0, scanProgress |-> 0, lastScanned |-> "Never"]

\* App.tsx line 133
InitialHistory == <<70, 75, 82, 80>>

\* App.tsx line 149: h.slice(-5)
KeptHistory == 5

\* App.tsx lines 128-135: the component as it is mounted
mounted ==
    [data |-> EMPTY_DATA, scanning |-> TRUE, progress |-> 0,
     history |-> InitialHistory, hasAlert |-> FALSE, scanned |-> FALSE,
     timers |-> 0, handled |-> 0, sent |-> {}]

\* h.slice(-n)
slice(h, n) == SubSeq(h, Max(1, Len(h) - n + 1), Len(h))

\* a variant whose analysisFailed clears the report on display
handlerFailedClearsData(a, msg) ==
    IF msg.type = "analysisStarted" THEN [a EXCEPT !.scanning = TRUE, !.progress = 0]
    ELSE IF msg.type = "progress" THEN [a EXCEPT !.progress = msg.value]
    ELSE IF msg.type = "analysisFailed"
    THEN [a EXCEPT !.scanning = FALSE, !.data = EMPTY_DATA]
    ELSE IF msg.type = "analysisResult"
    THEN [a EXCEPT
            !.data = msg.data,
            !.timers = @ + 1,
            !.progress = FullProgress,
            !.history = Append(slice(@, KeptHistory), msg.data.healthScore),
            !.hasAlert = @ \/ Len(msg.data.securityIssues) > 0]
    ELSE a

\* a variant that keeps the whole history: [...h, d.healthScore]
handlerKeepsHistory(a, msg) ==
    IF msg.type = "analysisStarted" THEN [a EXCEPT !.scanning = TRUE, !.progress = 0]
    ELSE IF msg.type = "progress" THEN [a EXCEPT !.progress = msg.value]
    ELSE IF msg.type = "analysisFailed" THEN [a EXCEPT !.scanning = FALSE]
    ELSE IF msg.type = "analysisResult"
    THEN [a EXCEPT
            !.data = msg.data,
            !.timers = @ + 1,
            !.progress = FullProgress,
            !.history = Append(@, msg.data.healthScore),
            !.hasAlert = @ \/ Len(msg.data.securityIssues) > 0]
    ELSE a

\* App.tsx lines 138-152: the message handler.  The four tests are on the
\* type of one message, so at most one of them succeeds; every message of
\* the provider of type progress has a value and every analysisResult a
\* payload.
handler(a, msg) ==
    IF msg.type = "analysisStarted" THEN [a EXCEPT !.scanning = TRUE, !.progress = 0]
    ELSE IF msg.type = "progress" THEN [a EXCEPT !.progress = msg.value]
    ELSE IF msg.type = "analysisFailed" THEN [a EXCEPT !.scanning = FALSE]
    ELSE IF msg.type = "analysisResult"
    THEN [a EXCEPT
            !.data = msg.data,
            !.timers = @ + 1,
            !.progress = FullProgress,
            !.history = Append(slice(@, KeptHistory), msg.data.healthScore),
            !.hasAlert = @ \/ Len(msg.data.securityIssues) > 0]
    ELSE a

\* App.tsx line 147: the callback of setTimeout(..., 800)
timedOut(a) == [a EXCEPT !.scanning = FALSE, !.scanned = TRUE, !.timers = @ - 1]

\* App.tsx line 157
openFile(a, path) ==
    [a EXCEPT !.sent = @ \cup {[type |-> "openFile", path |-> path]}]

\* App.tsx line 272: the loading page is shown in place of the main page
loadingPage(a) == a.scanning /\ ~a.scanned

(***************************************************************************)
(* Initial state: the extension is activated, the view is not resolved.    *)
(* A workspace without a folder has no files.                              *)
(***************************************************************************)
Init ==
    /\ \/ /\ workspaceFolders = <<>>
          /\ workspaceFiles = <<>>
       \/ /\ workspaceFolders = <<[name |-> "ws", root |-> WorkspaceRoot]>>
          /\ workspaceFiles \in SeqsOfDistinct(FileUniverse, MaxFiles)
    /\ view = FALSE
    /\ runs = <<>>
    /\ channel = <<>>
    /\ app = mounted

(***************************************************************************)
(* Actions.                                                                *)
(***************************************************************************)
\* a variant with a guard against a second scan: the call returns at once
\* while an earlier run has not ended
analyzeWorkspaceSingleFlight ==
    IF ~view \/ \E r \in DOMAIN runs : runs[r].pc \notin {"done", "failed"}
    THEN UNCHANGED runs
    ELSE /\ Len(runs) < MaxRuns
         /\ runs' = Append(runs, started(workspaceFolders))

\* a variant without the test of _view: the scan starts whether or not
\* there is a view to post to
analyzeWorkspaceWithoutView ==
    /\ Len(runs) < MaxRuns
    /\ runs' = Append(runs, started(workspaceFolders))

\* analyzeWorkspace(), lines 105-116
analyzeWorkspace ==
    IF ~view
    THEN UNCHANGED runs
    ELSE /\ Len(runs) < MaxRuns
         /\ runs' = Append(runs, started(workspaceFolders))

\* resolveWebviewView, lines 51-94: sets _view and starts the first scan
resolveWebviewView ==
    /\ ~view
    /\ Len(runs) < MaxRuns
    /\ view' = TRUE
    /\ runs' = Append(runs, started(workspaceFolders))
    /\ UNCHANGED <<workspaceFolders, workspaceFiles>>

\* the command codepulse.analyze, lines 16-20
analyzeCommand ==
    /\ analyzeWorkspace
    /\ UNCHANGED <<workspaceFolders, workspaceFiles, view>>

\* the watcher of lines 68-70, registered by resolveWebviewView
onDidSaveTextDocument ==
    /\ view
    /\ analyzeWorkspace
    /\ UNCHANGED <<workspaceFolders, workspaceFiles, view>>

\* the webview's message startAnalysis, lines 76-78
startAnalysis ==
    /\ view
    /\ analyzeWorkspace
    /\ UNCHANGED <<workspaceFolders, workspaceFiles, view>>

\* findFiles answers: lines 113-131 or 113-202
findFilesReturns(r) ==
    /\ runs[r].pc = "findFiles"
    /\ \E now \in Clock :
         runs' = [runs EXCEPT
                    ![r] = loop([@ EXCEPT !.files = workspaceFiles], now)]
    /\ UNCHANGED <<workspaceFolders, workspaceFiles, view>>

\* a variant that takes a failed discovery for an empty file list
findFilesThrowsAsEmpty(r) ==
    /\ runs[r].pc = "findFiles"
    /\ \E now \in Clock :
         runs' = [runs EXCEPT
                    ![r] = finished([@ EXCEPT !.raisedAt = runs[r].progress], now)]
    /\ UNCHANGED <<workspaceFolders, workspaceFiles, view>>

\* findFiles rejects: lines 204-208
findFilesThrows(r) ==
    /\ runs[r].pc = "findFiles"
    /\ runs' = [runs EXCEPT ![r] = caught([@ EXCEPT !.raisedAt = runs[r].progress])]
    /\ UNCHANGED <<workspaceFolders, workspaceFiles, view>>

\* a variant whose loop walks the file list from its end
openTextDocumentReturnsFromEnd(r) ==
    /\ runs[r].pc = "openTextDocument"
    /\ \E now \in Clock :
         runs' = [runs EXCEPT
                    ![r] = loop(scanned(@, workspaceFolders,
                                        @.files[Len(@.files) + 1 - @.progress]),
                                now)]
    /\ UNCHANGED <<workspaceFolders, workspaceFiles, view>>

\* a variant whose loop does not wait for the body: the detectors of a file
\* are left to run on their own and the loop goes on to the next read
openTextDocumentReturnsDetached(r) ==
    /\ runs[r].pc = "openTextDocument"
    /\ \E now \in Clock :
         runs' = [runs EXCEPT
                    ![r] = IF @.progress < Len(@.files)
                           THEN loop(@, now)
                           ELSE loop(scanned(@, workspaceFolders,
                                             @.files[@.progress]), now)]
    /\ UNCHANGED <<workspaceFolders, workspaceFiles, view>>

\* openTextDocument answers: lines 131-174, then the head of the loop
openTextDocumentReturns(r) ==
    /\ runs[r].pc = "openTextDocument"
    /\ \E now \in Clock :
         runs' = [runs EXCEPT
                    ![r] = loop(scanned(@, workspaceFolders,
                                        @.files[@.progress]), now)]
    /\ UNCHANGED <<workspaceFolders, workspaceFiles, view>>

\* openTextDocument rejects (or getText throws): lines 204-208
openTextDocumentThrows(r) ==
    /\ runs[r].pc = "openTextDocument"
    /\ runs' = [runs EXCEPT ![r] = caught([@ EXCEPT !.raisedAt = runs[r].progress])]
    /\ UNCHANGED <<workspaceFolders, workspaceFiles, view>>

\* The scanner, run by run: what each run posts is in its own posted; the
\* order of the messages of different runs on the channel is not recorded.
Next ==
    \/ (resolveWebviewView) /\ UNCHANGED <<channel, app>>
    \/ (analyzeCommand) /\ UNCHANGED <<channel, app>>
    \/ (onDidSaveTextDocument) /\ UNCHANGED <<channel, app>>
    \/ (startAnalysis) /\ UNCHANGED <<channel, app>>
    \/ (\E r \in DOMAIN runs : findFilesReturns(r)) /\ UNCHANGED <<channel, app>>
    \/ (\E r \in DOMAIN runs : findFilesThrows(r)) /\ UNCHANGED <<channel, app>>
    \/ (\E r \in DOMAIN runs : openTextDocumentReturns(r)) /\ UNCHANGED <<channel, app>>
    \/ (\E r \in DOMAIN runs : openTextDocumentThrows(r)) /\ UNCHANGED <<channel, app>>

Spec == Init /\ [][Next]_vars

(***************************************************************************)
(* The same program over a few workspaces: the first files of ScanOrder.   *)
(* Every await of a run is answered or rejected in the end: the host's     *)
(* promises settle, and a settled promise resumes the function.            *)
(***************************************************************************)
ScanOrder ==
    <<File(<<"src">>, "god", "tsx", 501, 9100, NoSecrets, 0, 3),
      File(<<"src">>, "five", "vue", 5, 200, << <<45>>, <<>>, <<30>> >>, 2, 1),
      File(<<"src">>, "four", "py", 4, 60, NoSecrets, 0, 0),
      File(<<>>, "empty", "ts", 0, 0, NoSecrets, 0, 0)>>

InitSmall ==
    /\ workspaceFolders = <<[name |-> "ws", root |-> WorkspaceRoot]>>
    /\ workspaceFiles \in
           { SubSeq(ScanOrder, 1, k) : k \in 0..Min(MaxFiles, Len(ScanOrder)) }
    /\ view = FALSE
    /\ runs = <<>>
    /\ channel = <<>>
    /\ app = mounted

HostSettles ==
    \A r \in 1..MaxRuns :
        /\ WF_vars(/\ r \in DOMAIN runs
                   /\ findFilesReturns(r) \/ findFilesThrows(r)
                   /\ UNCHANGED <<channel, app>>)
        /\ WF_vars(/\ r \in DOMAIN runs
                   /\ openTextDocumentReturns(r) \/ openTextDocumentThrows(r)
                   /\ UNCHANGED <<channel, app>>)

SpecLive == InitSmall /\ [][Next]_vars /\ HostSettles

(***************************************************************************)
(* The scans one after the other: the same actions, every workspace, but   *)
(* no call of analyzeWorkspace while a run is at an await.  What a scan    *)
(* computes from its file list is the same here as in Spec.                *)
(***************************************************************************)
NextOneByOne ==
    /\ Next
    /\ Len(runs') > Len(runs) =>
          \A r \in DOMAIN runs : runs[r].pc \in {"done", "failed"}

SpecOneByOne == Init /\ [][NextOneByOne]_vars

(***************************************************************************)
(* The same actions with the channel recorded: webview.postMessage appends *)
(* to the one channel of the view, whichever run posts.  A step is the     *)
(* step of one run (or a call that adds one); what that run has posted in  *)
(* the step goes to the channel in the same order.                         *)
(***************************************************************************)
postedInStep ==
    IF runs' = runs THEN <<>>
    ELSE LET r == CHOOSE r \in DOMAIN runs' :
                      r \notin DOMAIN runs \/ runs'[r] # runs[r]
             before == IF r \in DOMAIN runs THEN Len(runs[r].posted) ELSE 0
         IN  SubSeq(runs'[r].posted, before + 1, Len(runs'[r].posted))

postMessage == channel' = channel \o postedInStep

NextChannel ==
    \/ (resolveWebviewView) /\ postMessage /\ UNCHANGED app
    \/ (analyzeCommand) /\ postMessage /\ UNCHANGED app
    \/ (onDidSaveTextDocument) /\ postMessage /\ UNCHANGED app
    \/ (startAnalysis) /\ postMessage /\ UNCHANGED app
    \/ (\E r \in DOMAIN runs : findFilesReturns(r)) /\ postMessage /\ UNCHANGED app
    \/ (\E r \in DOMAIN runs : findFilesThrows(r)) /\ postMessage /\ UNCHANGED app
    \/ (\E r \in DOMAIN runs : openTextDocumentReturns(r)) /\ postMessage /\ UNCHANGED app
    \/ (\E r \in DOMAIN runs : openTextDocumentThrows(r)) /\ postMessage /\ UNCHANGED app

InitChannel ==
    /\ InitSmall
    /\ Len(workspaceFiles) <= MaxChannelFiles

SpecChannel == InitChannel /\ [][NextChannel]_vars

(***************************************************************************)
(* The provider and the webview together.  The provider's messages reach   *)
(* the handler one by one in the order of the channel; the timers and the  *)
(* user's clicks come at any time in between.  A click stands for the      *)
(* user's way to the list (nav, detail) and the click on one of its items; *)
(* the lists of the main page can be reached while the loading page is not *)
(* shown.                                                                  *)
(***************************************************************************)
host == <<workspaceFolders, workspaceFiles, view, runs, channel>>

\* App.tsx lines 137-155: window's message event
onMessage ==
    /\ app.handled < Len(channel)
    /\ app' = [handler(app, channel[app.handled + 1]) EXCEPT !.handled = @ + 1]
    /\ UNCHANGED host

\* App.tsx line 147: 800 ms have passed since an analysisResult was handled
onTimeout ==
    /\ app.timers > 0
    /\ app' = timedOut(app)
    /\ UNCHANGED host

\* App.tsx lines 234-238 and 251: a row of one of the file lists
clickFileRow ==
    /\ ~loadingPage(app)
    /\ \E list \in {app.data.allFiles, app.data.godFiles, app.data.unusedFiles} :
          \E i \in DOMAIN list : app' = openFile(app, list[i].path)
    /\ UNCHANGED host

\* App.tsx lines 259, 350, 357 and 360: a finding of the findings view, or
\* the View button of a performance issue
clickFinding ==
    /\ ~loadingPage(app)
    /\ \E list \in {app.data.securityIssues, app.data.performanceIssues} :
          \E i \in DOMAIN list : app' = openFile(app, list[i].file)
    /\ UNCHANGED host

\* part_001 lines 82-85: the host opens the document at data.path, a path
\* of the file system
openTextDocumentFinds(path) ==
    \E i \in DOMAIN workspaceFiles : workspaceFiles[i].uri = path

NextWebview ==
    \/ (resolveWebviewView) /\ postMessage /\ UNCHANGED app
    \/ (analyzeCommand) /\ postMessage /\ UNCHANGED app
    \/ (onDidSaveTextDocument) /\ postMessage /\ UNCHANGED app
    \/ (startAnalysis) /\ postMessage /\ UNCHANGED app
    \/ (\E r \in DOMAIN runs : findFilesReturns(r)) /\ postMessage /\ UNCHANGED app
    \/ (\E r \in DOMAIN runs : findFilesThrows(r)) /\ postMessage /\ UNCHANGED app
    \/ (\E r \in DOMAIN runs : openTextDocumentReturns(r)) /\ postMessage /\ UNCHANGED app
    \/ (\E r \in DOMAIN runs : openTextDocumentThrows(r)) /\ postMessage /\ UNCHANGED app
    \/ onMessage
    \/ onTimeout
    \/ clickFileRow
    \/ clickFinding

\* one workspace: a single file, with secrets, nested loops and eval( in it
InitWebview ==
    /\ workspaceFolders = <<[name |-> "ws", root |-> WorkspaceRoot]>>
    /\ workspaceFiles = SubSeq(ScanOrder, 2, 2)
    /\ view = FALSE
    /\ runs = <<>>
    /\ channel = <<>>
    /\ app = mounted

SpecWebview == InitWebview /\ [][NextWebview]_vars

(***************************************************************************)
(* What the claims speak of.                                               *)
(***************************************************************************)
Runs == { runs[r] : r \in DOMAIN runs }

PostedOf(run, type) == SelectSeq(run.posted, LAMBDA m : m.type = type)

\* a run that has posted analysisResult / analysisFailed
Succeeded(run) == PostedOf(run, "analysisResult") # <<>>
Failed(run) == PostedOf(run, "analysisFailed") # <<>>

\* the reports emitted so far
Reports == { m.data : m \in UNION { { run.posted[i] : i \in
                 { j \in DOMAIN run.posted : run.posted[j].type = "analysisResult" } }
                 : run \in Runs } }

\* the progress events a run posts from inside its loop: all its progress
\* events but the one that precedes analysisResult
PerFileProgress(run) ==
    LET p == PostedOf(run, "progress")
    IN  IF Succeeded(run) THEN SubSeq(p, 1, Len(p) - 1) ELSE p

ReportFields ==
    {"healthScore", "workspaceName", "godFiles", "securityIssues",
     "performanceIssues", "unusedFiles", "allFiles", "totalFiles", "totalLines",
     "unusedExports", "circularDeps", "scanProgress", "lastScanned"}

(***************************************************************************)
(* C1: in every report emitted by analyzeWorkspace, healthScore is an      *)
(* integer between 0 and 100, both included.                               *)
(***************************************************************************)
C1_HealthScoreInRange ==
    \A rep \in Reports : rep.healthScore \in 0..100

\* a report whose deductions exceed 100: the lower clamp acts
C1_Witness ==
    \E rep \in Reports :
        /\ 15 * Len(rep.securityIssues) + 8 * Len(rep.performanceIssues) > 100
        /\ rep.healthScore = 0

(***************************************************************************)
(* C2: in every report, healthScore = max(0, min(100, 100 - (15*S + 5*G +  *)
(* 8*P + 2*N))), S, G, P, N being the lengths of securityIssues, godFiles, *)
(* performanceIssues and unusedFiles of that same report.                  *)
(***************************************************************************)
C2_HealthScoreFormula ==
    \A rep \in Reports :
        LET d == 15 * Len(rep.securityIssues) + 5 * Len(rep.godFiles)
                 + 8 * Len(rep.performanceIssues) + 2 * Len(rep.unusedFiles)
            raw == 100 - d
            capped == IF raw > 100 THEN 100 ELSE raw
        IN  rep.healthScore = (IF capped < 0 THEN 0 ELSE capped)

\* the first example of the claim: one security finding and nothing else
\* gives 85
C2_Witness ==
    \E rep \in Reports :
        /\ Len(rep.securityIssues) = 1 /\ rep.godFiles = <<>>
        /\ rep.performanceIssues = <<>> /\ rep.unusedFiles = <<>>
        /\ rep.healthScore = 85

(***************************************************************************)
(* C3: in every report, healthScore = 100 if and only if securityIssues,   *)
(* godFiles, performanceIssues and unusedFiles are all empty.              *)
(***************************************************************************)
C3_PerfectScoreIffNoFindings ==
    \A rep \in Reports :
        rep.healthScore = 100 <=>
            /\ rep.securityIssues = <<>> /\ rep.godFiles = <<>>
            /\ rep.performanceIssues = <<>> /\ rep.unusedFiles = <<>>

\* a report over a scanned file that has no finding, at 100
C3_Witness ==
    \E rep \in Reports :
        /\ rep.allFiles # <<>>
        /\ rep.securityIssues = <<>> /\ rep.godFiles = <<>>
        /\ rep.performanceIssues = <<>> /\ rep.unusedFiles = <<>>
        /\ rep.healthScore = 100

(***************************************************************************)
(* C4: the events of a run that posts analysisResult are, in order: one    *)
(* analysisStarted, first; then progress events only; then one             *)
(* analysisResult, last, carrying the complete report.  Nothing of the run *)
(* follows its analysisResult.                                             *)
(***************************************************************************)
C4_SuccessfulRunEventOrder ==
    \A run \in Runs :
        Succeeded(run) =>
            LET n == Len(run.posted)
            IN  /\ n >= 2
                /\ run.posted[1].type = "analysisStarted"
                /\ Len(PostedOf(run, "analysisStarted")) = 1
                /\ run.posted[n].type = "analysisResult"
                /\ Len(PostedOf(run, "analysisResult")) = 1
                /\ DOMAIN run.posted[n].data = ReportFields
                /\ \A i \in 2..(n - 1) : run.posted[i].type = "progress"

\* a successful run over two files: progress events from the loop precede
\* the result
C4_Witness ==
    \E run \in Runs :
        /\ Succeeded(run)
        /\ Len(run.files) = 2
        /\ Len(PostedOf(run, "progress")) = 3

(***************************************************************************)
(* C5: the events of a run that posts analysisFailed are, in order: one    *)
(* analysisStarted, then progress events only, then one analysisFailed     *)
(* without a payload, last.  No run posts both analysisFailed and          *)
(* analysisResult.                                                         *)
(***************************************************************************)
C5_FailingRunEventOrder ==
    \A run \in Runs :
        /\ ~(Failed(run) /\ Succeeded(run))
        /\ Failed(run) =>
            LET n == Len(run.posted)
            IN  /\ n >= 2
                /\ run.posted[1].type = "analysisStarted"
                /\ Len(PostedOf(run, "analysisStarted")) = 1
                /\ run.posted[n].type = "analysisFailed"
                /\ DOMAIN run.posted[n] = {"type"}
                /\ Len(PostedOf(run, "analysisFailed")) = 1
                /\ \A i \in 2..(n - 1) : run.posted[i].type = "progress"

\* a run that failed at its second file, after two progress events
C5_Witness ==
    \E run \in Runs :
        /\ Failed(run)
        /\ Len(PostedOf(run, "progress")) = 2
        /\ Len(run.allFiles) = 1

(***************************************************************************)
(* C6: once findFiles or the read of a file has raised in a run, the run   *)
(* has posted analysisFailed as its last event and no analysisResult, and  *)
(* it has processed no file beyond those before the failure: the failing   *)
(* file and the files after it have no record and no later file is begun.  *)
(***************************************************************************)
C6_FileFailureAbortsRun ==
    \A run \in Runs :
        run.raisedAt >= 0 =>
            /\ run.posted[Len(run.posted)].type = "analysisFailed"
            /\ ~Succeeded(run)
            /\ run.progress = run.raisedAt
            /\ Len(run.allFiles) = (IF run.raisedAt = 0 THEN 0 ELSE run.raisedAt - 1)
            /\ Len(PerFileProgress(run)) = run.raisedAt

\* the read of the first of two files raised
C6_Witness ==
    \E run \in Runs :
        /\ run.raisedAt = 1
        /\ Len(run.files) = 2
        /\ Failed(run)

C8_FinalProgressIs100 ==
    \A run \in Runs :
        Succeeded(run) =>
            LET n == Len(run.posted)
                p == PostedOf(run, "progress")
            IN  /\ n >= 3
                /\ run.posted[n].type = "analysisResult"
                /\ run.posted[n - 1].type = "progress"
                /\ run.posted[n - 1].value = 100
                /\ p[Len(p)].value = 100
                /\ Len(p) = Len(run.files) + 1
                /\ \A i \in 2..(n - 2) : run.posted[i].type = "progress"
                /\ run.posted[n].data.scanProgress = 100

\* a successful run over no file: started, progress 100, result
C8_Witness ==
    \E run \in Runs :
        /\ Succeeded(run)
        /\ run.files = <<>>
        /\ Len(run.posted) = 3
        /\ run.posted[2].value = 100

(***************************************************************************)
(* C9: in every report, a scanned file has its record in godFiles if and   *)
(* only if the file has more than 500 lines.                               *)
(***************************************************************************)
C9_GodFilesIffOver500Lines ==
    \A run \in Runs :
        Succeeded(run) =>
            LET rep == run.posted[Len(run.posted)].data
            IN  /\ \A i \in DOMAIN run.files :
                      (\E j \in DOMAIN rep.godFiles :
                           /\ rep.godFiles[j].path = run.files[i].uri
                           /\ rep.godFiles[j].lines = run.files[i].lines)
                      <=> run.files[i].lines > 500
                /\ \A j \in DOMAIN rep.godFiles :
                      \E i \in DOMAIN run.files :
                          rep.godFiles[j].path = run.files[i].uri

\* a report over a file of 500 lines, left out, and one of 501, listed
C9_Witness ==
    \E rep \in Reports :
        /\ \E i \in DOMAIN rep.allFiles : rep.allFiles[i].lines = 500
        /\ \E i \in DOMAIN rep.allFiles : rep.allFiles[i].lines = 501
        /\ Len(rep.godFiles) = 1
        /\ rep.godFiles[1].lines = 501

(***************************************************************************)
(* C10: in every report, a scanned file has its record in unusedFiles if   *)
(* and only if the file has more than 0 and fewer than 5 lines.            *)
(***************************************************************************)
C10_UnusedFilesIffStub ==
    \A run \in Runs :
        Succeeded(run) =>
            LET rep == run.posted[Len(run.posted)].data
            IN  /\ \A i \in DOMAIN run.files :
                      (\E j \in DOMAIN rep.unusedFiles :
                           /\ rep.unusedFiles[j].path = run.files[i].uri
                           /\ rep.unusedFiles[j].lines = run.files[i].lines)
                      <=> (0 < run.files[i].lines /\ run.files[i].lines < 5)
                /\ \A j \in DOMAIN rep.unusedFiles :
                      \E i \in DOMAIN run.files :
                          rep.unusedFiles[j].path = run.files[i].uri

\* a report over a file of 0 lines, left out, and one of 4, listed
C10_Witness ==
    \E rep \in Reports :
        /\ \E i \in DOMAIN rep.allFiles : rep.allFiles[i].lines = 0
        /\ \E i \in DOMAIN rep.allFiles : rep.allFiles[i].lines = 4
        /\ Len(rep.unusedFiles) = 1
        /\ rep.unusedFiles[1].lines = 4

(***************************************************************************)
(* C11: a run over an empty file list posts analysisStarted, progress 100  *)
(* and analysisResult and nothing else (no progress event from the loop);  *)
(* its report has healthScore 100, totalFiles 0, totalLines 0, circularDeps*)
(* 0 and five empty lists.                                                 *)
(***************************************************************************)
C11_EmptyWorkspaceReport ==
    \A run \in Runs :
        (run.pc = "done" /\ run.files = <<>>) =>
            /\ Len(run.posted) = 3
            /\ run.posted[1] = [type |-> "analysisStarted"]
            /\ run.posted[2] = [type |-> "progress", value |-> 100]
            /\ run.posted[3].type = "analysisResult"
            /\ LET rep == run.posted[3].data
               IN  /\ rep.healthScore = 100
                   /\ rep.totalFiles = 0
                   /\ rep.totalLines = 0
                   /\ rep.circularDeps = 0
                   /\ rep.godFiles = <<>>
                   /\ rep.securityIssues = <<>>
                   /\ rep.performanceIssues = <<>>
                   /\ rep.unusedFiles = <<>>
                   /\ rep.allFiles = <<>>

\* a finished scan of a workspace that has a folder and no matching file
C11_Witness ==
    \E run \in Runs :
        /\ run.pc = "done"
        /\ run.files = <<>>
        /\ workspaceFolders # <<>>
        /\ run.posted[3].data.workspaceName = "ws"

(***************************************************************************)
(* The scan of a file list by a run that is alone, written out from the    *)
(* files: what the first k files of the list contribute.                   *)
(***************************************************************************)
ExpectedDetail(f) ==
    [name |-> f.uri.base, path |-> f.uri, lines |-> f.lines, size |-> f.size,
     ext |-> f.uri.base.ext]

ExpectedAllFiles(files, k) == [i \in 1..k |-> ExpectedDetail(files[i])]

RECURSIVE ExpectedLines(_, _)
ExpectedLines(files, k) ==
    IF k = 0 THEN 0 ELSE ExpectedLines(files, k - 1) + files[k].lines

RECURSIVE ExpectedSecurity(_, _, _)
ExpectedSecurity(folders, files, k) ==
    IF k = 0 THEN <<>>
    ELSE ExpectedSecurity(folders, files, k - 1)
         \o secretFindings(files[k], asRelativePath(folders, files[k].uri), 1)

RECURSIVE ExpectedPerformance(_, _, _)
ExpectedPerformance(folders, files, k) ==
    IF k = 0 THEN <<>>
    ELSE ExpectedPerformance(folders, files, k - 1)
         \o performanceFindings(files[k], asRelativePath(folders, files[k].uri))

ExpectedReport(folders, files, now) ==
    LET n == Len(files)
        all == ExpectedAllFiles(files, n)
        god == SelectSeq(all, LAMBDA d : d.lines > 500)
        unused == SelectSeq(all, LAMBDA d : 0 < d.lines /\ d.lines < 5)
        sec == ExpectedSecurity(folders, files, n)
        perf == ExpectedPerformance(folders, files, n)
        d == 15 * Len(sec) + 5 * Len(god) + 8 * Len(perf) + 2 * Len(unused)
    IN  [healthScore |-> IF d > 100 THEN 0 ELSE 100 - d,
         workspaceName |-> IF folders = <<>> THEN "Unknown" ELSE folders[1].name,
         godFiles |-> god, securityIssues |-> sec, performanceIssues |-> perf,
         unusedFiles |-> unused, allFiles |-> all,
         totalFiles |-> n, totalLines |-> ExpectedLines(files, n),
         unusedExports |-> Len(unused), circularDeps |-> 0,
         scanProgress |-> 100, lastScanned |-> now]

(***************************************************************************)
(* C12: after a run has ended with analysisFailed the provider still takes *)
(* a call of analyzeWorkspace, and a run called after a failed one is a    *)
(* fresh run: it posts analysisStarted first and, when it ends well, its   *)
(* report is the report of a scan of its file list alone.                  *)
(***************************************************************************)
C12_FreshRunAfterFailure ==
    /\ (view /\ Len(runs) < MaxRuns /\ \E run \in Runs : run.pc = "failed")
          => ENABLED (startAnalysis /\ Len(runs') = Len(runs) + 1)
    /\ \A run \in Runs :
          (\E r \in run.endedBefore : runs[r].pc = "failed") =>
              /\ run.posted[1] = [type |-> "analysisStarted"]
              /\ Len(run.allFiles) <= run.progress
              /\ run.pc = "done" =>
                    LET rep == run.posted[Len(run.posted)].data
                    IN  rep = ExpectedReport(workspaceFolders, run.files,
                                             rep.lastScanned)

\* the first run failed at its second file, having scanned the first; the
\* second run, called after that, has ended with a report
C12_Witness ==
    /\ Len(runs) = 2
    /\ runs[1].pc = "failed"
    /\ Len(runs[1].allFiles) = 1
    /\ runs[2].endedBefore = {1}
    /\ runs[2].pc = "done"
    /\ Len(runs[2].posted[Len(runs[2].posted)].data.allFiles) = 2

(***************************************************************************)
(* C13: two runs, the second called after the first has ended, both over   *)
(* the unchanged file set and both ending well, post reports that are      *)
(* equal in every field but lastScanned.                                   *)
(***************************************************************************)
C13_RescanGivesSameReport ==
    \A r2 \in DOMAIN runs : \A r1 \in runs[r2].endedBefore :
        (runs[r1].pc = "done" /\ runs[r2].pc = "done") =>
            LET rep1 == runs[r1].posted[Len(runs[r1].posted)].data
                rep2 == runs[r2].posted[Len(runs[r2].posted)].data
            IN  /\ DOMAIN rep1 = DOMAIN rep2
                /\ \A field \in DOMAIN rep1 \ {"lastScanned"} :
                      rep1[field] = rep2[field]

\* two scans of two files, one after the other, stamped at different times
C13_Witness ==
    /\ Len(runs) = 2
    /\ runs[1].pc = "done"
    /\ runs[2].pc = "done"
    /\ runs[2].endedBefore = {1}
    /\ Len(runs[1].files) = 2
    /\ runs[1].posted[5].data.securityIssues # <<>>
    /\ runs[1].posted[5].data.lastScanned # runs[2].posted[5].data.lastScanned

(***************************************************************************)
(* C14: a run that has posted analysisStarted posts, in the end, one       *)
(* terminal event (analysisResult or analysisFailed), and never more than  *)
(* one: no step abandons a started run.  (The host's calls settle.)        *)
(***************************************************************************)
Terminals(run) ==
    Len(PostedOf(run, "analysisResult")) + Len(PostedOf(run, "analysisFailed"))

C14_StartedRunEnds ==
    /\ [](\A run \in Runs : Terminals(run) <= 1)
    /\ \A r \in 1..MaxRuns :
          (r \in DOMAIN runs /\ runs[r].posted[1].type = "analysisStarted")
             ~> (r \in DOMAIN runs /\ Terminals(runs[r]) = 1)

\* two runs have ended, one with a report and one with a failure
C14_Witness ==
    /\ \E run \in Runs : run.pc = "done" /\ Terminals(run) = 1
    /\ \E run \in Runs : run.pc = "failed" /\ Terminals(run) = 1

(***************************************************************************)
(* C15: for each scanned file the run holds exactly one SecurityIssue per  *)
(* secret pattern that matches the file's text at least once, however many *)
(* matches the pattern has: between 0 and 3 per file, each with line = 0.  *)
(***************************************************************************)
MatchingPatterns(f) == {p \in 1..3 : Len(f.sec[p]) >= 1}

IssuesOf(issues, f) ==
    {i \in DOMAIN issues : issues[i].file.base = f.uri.base}

C15_OneSecurityIssuePerPattern ==
    \A run \in Runs :
        LET scannedFiles == {run.files[i] : i \in 1..Len(run.allFiles)}
        IN  /\ \A f \in scannedFiles :
                  /\ Cardinality(IssuesOf(run.securityIssues, f))
                        = Cardinality(MatchingPatterns(f))
                  /\ Cardinality(IssuesOf(run.securityIssues, f)) \in 0..3
            /\ \A i \in DOMAIN run.securityIssues :
                  /\ run.securityIssues[i].line = 0
                  /\ \E f \in scannedFiles : i \in IssuesOf(run.securityIssues, f)

\* a scanned file in which the first pattern matches three times and the
\* third twice has three issues, one per pattern; another file has none
C15_Witness ==
    \E run \in Runs :
        /\ Len(run.allFiles) = 2
        /\ \E i \in 1..2 :
              /\ Len(run.files[i].sec[1]) = 3
              /\ Len(run.files[i].sec[3]) = 2
              /\ Cardinality(IssuesOf(run.securityIssues, run.files[i])) = 3
        /\ \E i \in 1..2 :
              Cardinality(IssuesOf(run.securityIssues, run.files[i])) = 0

(***************************************************************************)
(* C16: in every report the file of every security and performance issue   *)
(* is a path relative to the workspace folder, and the path of every       *)
(* FileDetail of allFiles, godFiles and unusedFiles is an absolute path;   *)
(* no field holds a path of the other kind.                                *)
(***************************************************************************)
IsAbsolutePath(p) == p.abs /\ IsPrefix(<<"home", "ws">>, p.dir)

IsRelativePath(p) == ~p.abs /\ ~IsPrefix(<<"home">>, p.dir)

C16_PathConventions ==
    \A rep \in Reports :
        /\ \A i \in DOMAIN rep.securityIssues :
              IsRelativePath(rep.securityIssues[i].file)
        /\ \A i \in DOMAIN rep.performanceIssues :
              IsRelativePath(rep.performanceIssues[i].file)
        /\ \A i \in DOMAIN rep.allFiles : IsAbsolutePath(rep.allFiles[i].path)
        /\ \A i \in DOMAIN rep.godFiles : IsAbsolutePath(rep.godFiles[i].path)
        /\ \A i \in DOMAIN rep.unusedFiles : IsAbsolutePath(rep.unusedFiles[i].path)

\* a report that has entries in all five lists
C16_Witness ==
    \E rep \in Reports :
        /\ rep.securityIssues # <<>>
        /\ rep.performanceIssues # <<>>
        /\ rep.godFiles # <<>>
        /\ rep.unusedFiles # <<>>
        /\ rep.securityIssues[1].file.dir = <<"lib">>
        /\ rep.godFiles[1].path.dir = <<"home", "ws", "lib">>

(***************************************************************************)
(* C17: the progress event of the k-th file is posted after that file has  *)
(* been read and scanned: a run has never posted more progress events from *)
(* its loop than it has scanned files.                                     *)
(***************************************************************************)
C17_ProgressAfterFileScanned ==
    \A run \in Runs : Len(PerFileProgress(run)) <= Len(run.allFiles)

(***************************************************************************)
(* C18: a call of analyzeWorkspace made while an earlier run is suspended  *)
(* at an await is neither refused nor queued: the call is enabled, and in  *)
(* the very step of the call analysisStarted goes on the channel and the   *)
(* new run stands at its first await, next to the earlier runs, which the  *)
(* call leaves as they are.  (The events of overlapping runs then          *)
(* interleave on the one channel: see the witness.)                        *)
(***************************************************************************)
Suspended(run) == run.pc \in {"findFiles", "openTextDocument"}

C18_OverlappingRunStartsAtOnce ==
    /\ []((view /\ Len(runs) < MaxRuns /\ \E run \in Runs : Suspended(run))
             => /\ ENABLED (startAnalysis /\ Len(runs') = Len(runs) + 1)
                /\ ENABLED (onDidSaveTextDocument /\ Len(runs') = Len(runs) + 1)
                /\ ENABLED (analyzeCommand /\ Len(runs') = Len(runs) + 1))
    /\ [][Len(runs') > Len(runs) =>
             /\ Len(runs') = Len(runs) + 1
             /\ channel' = Append(channel, [type |-> "analysisStarted"])
             /\ Suspended(runs'[Len(runs')])
             /\ \A r \in DOMAIN runs : runs'[r] = runs[r]]_vars

\* two runs overlap (the second was called before the first ended) and on
\* the channel a progress event of 85 comes after an analysisResult that
\* followed a progress event of 100: the progress seen on the channel
\* goes down
C18_Witness ==
    /\ Len(runs) = 2
    /\ runs[2].endedBefore = {}
    /\ \E i, j, k \in DOMAIN channel :
          /\ i < j /\ j < k
          /\ channel[i].type = "progress" /\ channel[i].value = 100
          /\ channel[j].type = "analysisResult"
          /\ channel[k].type = "progress" /\ channel[k].value = 85

(***************************************************************************)
(* C19: runs share no accumulator: however the steps of overlapping runs   *)
(* interleave, what a run has gathered is what a scan of the first files   *)
(* of its own list gathers, its report is the report of a scan of its own  *)
(* list alone, and a step of one run changes no other run; in particular   *)
(* a posted report is never changed afterwards.                            *)
(***************************************************************************)
GatheredAlone(run) ==
    LET k == Len(run.allFiles)
        all == ExpectedAllFiles(run.files, k)
    IN  /\ k <= Len(run.files)
        /\ run.allFiles = all
        /\ run.godFiles = SelectSeq(all, LAMBDA d : d.lines > 500)
        /\ run.unusedFiles = SelectSeq(all, LAMBDA d : 0 < d.lines /\ d.lines < 5)
        /\ run.securityIssues = ExpectedSecurity(workspaceFolders, run.files, k)
        /\ run.performanceIssues = ExpectedPerformance(workspaceFolders, run.files, k)
        /\ run.totalLines = ExpectedLines(run.files, k)
        /\ run.pc = "done" =>
              LET rep == run.posted[Len(run.posted)].data
              IN  rep = ExpectedReport(workspaceFolders, run.files, rep.lastScanned)

C19_RunsShareNoState ==
    /\ [](\A run \in Runs : GatheredAlone(run))
    /\ [][/\ \A r, q \in DOMAIN runs :
                (runs'[r] # runs[r] /\ runs'[q] # runs[q]) => r = q
          /\ \A r \in DOMAIN runs :
                Succeeded(runs[r]) => runs'[r] = runs[r]]_vars

\* two overlapping runs: the second was called while the first was at an
\* await, the first has posted its report over two files, the second has
\* scanned one file so far
C19_Witness ==
    /\ Len(runs) = 2
    /\ runs[2].endedBefore = {}
    /\ runs[1].pc = "done"
    /\ Len(runs[1].allFiles) = 2
    /\ runs[1].securityIssues # <<>>
    /\ runs[2].pc = "openTextDocument"
    /\ Len(runs[2].allFiles) = 1

(***************************************************************************)
(* C20: in every emitted report godFiles and unusedFiles are sub-lists of  *)
(* allFiles: every member of either is a record of allFiles.  Either list  *)
(* may be the whole of allFiles.                                           *)
(***************************************************************************)
Members(list) == { list[i] : i \in DOMAIN list }

C20_ListsWithinAllFiles ==
    \A d \in Reports :
        /\ Members(d.godFiles) \subseteq Members(d.allFiles)
        /\ Members(d.unusedFiles) \subseteq Members(d.allFiles)

\* a report over god files only: godFiles is the whole of allFiles
C20_Witness ==
    \E d \in Reports :
        /\ d.allFiles # <<>>
        /\ d.godFiles = d.allFiles

\* C20 as stated: the two lists are proper subsets, neither is ever the
\* whole of allFiles
C20_ListsProperlyWithinAllFiles ==
    \A d \in Reports :
        /\ C20_ListsWithinAllFiles
        /\ d.godFiles # d.allFiles
        /\ d.unusedFiles # d.allFiles

(***************************************************************************)
(* C21: a run that ends with a report has visited each file findFiles      *)
(* returned once and in the order returned: allFiles of the report has one *)
(* record per file of the list, the i-th record is that of the i-th file,  *)
(* no file is listed twice and none is left out.                           *)
(***************************************************************************)
C21_EachFileOnceInOrder ==
    \A run \in Runs :
        Succeeded(run) =>
            LET all == PostedOf(run, "analysisResult")[1].data.allFiles
            IN  /\ Len(all) = Len(run.files)
                /\ \A i \in DOMAIN all :
                      /\ all[i].path = run.files[i].uri
                      /\ all[i].lines = run.files[i].lines
                      /\ all[i].size = run.files[i].size
                /\ \A i, j \in DOMAIN all : all[i].path = all[j].path => i = j

\* a report over two files that differ in their line counts
C21_Witness ==
    \E run \in Runs :
        /\ Succeeded(run)
        /\ Len(run.files) = 2
        /\ LET all == PostedOf(run, "analysisResult")[1].data.allFiles
           IN  Len(all) = 2 /\ all[1].lines > all[2].lines

(***************************************************************************)
(* C22: a run whose findFiles has failed has posted analysisStarted and    *)
(* then analysisFailed, and nothing else: no progress event and no         *)
(* analysisResult.  Before findFiles has answered a run has posted         *)
(* analysisStarted only.                                                   *)
(***************************************************************************)
C22_DiscoveryFailureEvents ==
    \A run \in Runs :
        /\ run.pc = "findFiles" => run.posted = <<AnalysisStarted>>
        /\ run.raisedAt = 0 =>
              /\ run.posted = <<AnalysisStarted, AnalysisFailed>>
              /\ run.pc = "failed"
              /\ run.allFiles = <<>>

\* findFiles has failed in a workspace that holds files
C22_Witness ==
    /\ workspaceFiles # <<>>
    /\ \E run \in Runs : run.raisedAt = 0 /\ Failed(run)

(***************************************************************************)
(* C23: within a run the files are processed one after the other: while    *)
(* the read of file k is awaited the run holds the records of the files    *)
(* 1..k-1 and of no other; the step that follows the read of file k        *)
(* appends the record and all the findings of file k, and only then does   *)
(* the read of file k+1 begin or the run end; a read that fails appends    *)
(* nothing.                                                                *)
(***************************************************************************)
\* what the step has appended to a list of the run r
AppendedTo(r, list) ==
    SubSeq(runs'[r][list], Len(runs[r][list]) + 1, Len(runs'[r][list]))

C23_FilesOneAfterTheOther ==
    /\ [](\A run \in Runs :
            /\ run.pc = "openTextDocument" =>
                  /\ run.progress \in 1..Len(run.files)
                  /\ Len(run.allFiles) = run.progress - 1
            /\ run.pc = "done" =>
                  /\ run.progress = Len(run.files)
                  /\ Len(run.allFiles) = run.progress
            /\ run.pc = "findFiles" => run.progress = 0 /\ run.allFiles = <<>>)
    /\ [][\A r \in DOMAIN runs :
             runs'[r] # runs[r] /\ runs[r].pc = "openTextDocument" =>
                LET k == runs[r].progress
                    f == runs[r].files[k]
                    rel == asRelativePath(workspaceFolders, f.uri)
                IN  \/ /\ runs'[r].pc = "failed"
                       /\ runs'[r].allFiles = runs[r].allFiles
                       /\ runs'[r].securityIssues = runs[r].securityIssues
                       /\ runs'[r].performanceIssues = runs[r].performanceIssues
                    \/ /\ runs'[r].allFiles = Append(runs[r].allFiles, ExpectedDetail(f))
                       /\ runs'[r].securityIssues
                            = runs[r].securityIssues \o secretFindings(f, rel, 1)
                       /\ runs'[r].performanceIssues
                            = runs[r].performanceIssues \o performanceFindings(f, rel)
                       /\ runs'[r].totalLines = runs[r].totalLines + f.lines
                       /\ \/ /\ runs'[r].pc = "openTextDocument"
                             /\ runs'[r].progress = k + 1
                          \/ /\ runs'[r].pc = "done"
                             /\ runs'[r].progress = k
                             /\ k = Len(runs[r].files)]_vars

\* the read of the second file is awaited; the first file has findings
C23_Witness ==
    \E run \in Runs :
        /\ run.pc = "openTextDocument"
        /\ run.progress = 2
        /\ Len(run.allFiles) = 1
        /\ run.securityIssues # <<>>
        /\ run.performanceIssues # <<>>

(***************************************************************************)
(* C24: for each scanned file the performance detectors append at most two *)
(* entries: one "Nested Loops" entry iff the nested-loop pattern matches,  *)
(* its count the number of matches, and one "eval() usage" entry of count  *)
(* 1 iff eval( occurs, however often; every entry has a count >= 1.        *)
(***************************************************************************)
OfType(issues, type) == SelectSeq(issues, LAMBDA p : p.type = type)

C24_PerformanceIssuesPerFile ==
    /\ [][\A r \in DOMAIN runs :
             Len(runs'[r].allFiles) = Len(runs[r].allFiles) + 1 =>
                LET f == runs[r].files[Len(runs'[r].allFiles)]
                    added == AppendedTo(r, "performanceIssues")
                    nested == OfType(added, "Nested Loops")
                    evals == OfType(added, "eval() usage")
                IN  /\ Len(added) <= 2
                    /\ Len(added) = Len(nested) + Len(evals)
                    /\ Len(nested) = (IF f.nested >= 1 THEN 1 ELSE 0)
                    /\ \A j \in DOMAIN nested : nested[j].count = f.nested
                    /\ Len(evals) = (IF f.evals >= 1 THEN 1 ELSE 0)
                    /\ \A j \in DOMAIN evals : evals[j].count = 1
                    /\ \A j \in DOMAIN added :
                          added[j].file = asRelativePath(workspaceFolders, f.uri)]_vars
    /\ [][\A r \in DOMAIN runs :
             Len(runs'[r].allFiles) = Len(runs[r].allFiles) =>
                runs'[r].performanceIssues = runs[r].performanceIssues]_vars
    /\ [](\A run \in Runs : \A j \in DOMAIN run.performanceIssues :
             run.performanceIssues[j].count >= 1)

\* a report over a file with three eval( and no nested loop, and a file
\* with three nested loops and two eval(
C24_Witness ==
    \E run \in Runs :
        /\ Succeeded(run)
        /\ Len(run.files) = 2
        /\ run.files[1].nested = 0 /\ run.files[1].evals = 3
        /\ run.files[2].nested = 3 /\ run.files[2].evals = 2
        /\ Len(run.performanceIssues) = 3

(***************************************************************************)
(* C25: what a scan finds for a file depends on that file alone, not on    *)
(* the scan order or on the other files: the findings a report holds for a *)
(* file are those of a scan of that file alone, and a scan of the same     *)
(* files in any other order gives the same healthScore, totalFiles and     *)
(* totalLines and the same multisets of findings and of classified files.  *)
(***************************************************************************)
RECURSIVE scannedAll(_, _, _)
\* the loop of lines 126-174 run over files[1..k], no read failing
scannedAll(folders, files, k) ==
    IF k = 0 THEN [started(folders) EXCEPT !.files = files]
    ELSE scanned(scannedAll(folders, files, k - 1), folders, files[k])

ReportOver(folders, files, now) ==
    report(scannedAll(folders, files, Len(files)), now)

OrdersOf(s) ==
    { p \in [DOMAIN s -> Members(s)] : \A x \in Members(s) : \E i \in DOMAIN p : p[i] = x }

Multiset(s) ==
    [x \in Members(s) |-> Cardinality({ i \in DOMAIN s : s[i] = x })]

FoundIn(list, folders, f) ==
    SelectSeq(list, LAMBDA x : x.file = asRelativePath(folders, f.uri))

\* what must not depend on the order: the score, the totals and the
\* multisets of findings and of files
Summary(d) ==
    [healthScore |-> d.healthScore, totalFiles |-> d.totalFiles,
     totalLines |-> d.totalLines,
     securityIssues |-> Multiset(d.securityIssues),
     performanceIssues |-> Multiset(d.performanceIssues),
     godFiles |-> Multiset(d.godFiles),
     unusedFiles |-> Multiset(d.unusedFiles),
     allFiles |-> Multiset(d.allFiles)]

\* what the report d holds for the file f, whose record is fd
FoundFor(d, folders, f, fd) ==
    [securityIssues |-> FoundIn(d.securityIssues, folders, f),
     performanceIssues |-> FoundIn(d.performanceIssues, folders, f),
     god |-> fd \in Members(d.godFiles),
     unused |-> fd \in Members(d.unusedFiles)]

\* the report d over the file list files is that of a scan of each file
\* alone and of a scan in any order
IndependentOfOrder(d, folders, files) ==
    /\ \A i \in DOMAIN files :
          FoundFor(d, folders, files[i], d.allFiles[i])
            = FoundFor(ReportOver(folders, <<files[i]>>, d.lastScanned),
                       folders, files[i], ExpectedDetail(files[i]))
    /\ { Summary(ReportOver(folders, p, d.lastScanned)) : p \in OrdersOf(files) }
         = { Summary(d) }

C25_FindingsIndependentOfOrder ==
    \A run \in Runs :
        Succeeded(run) =>
            IndependentOfOrder(PostedOf(run, "analysisResult")[1].data,
                               workspaceFolders, run.files)

\* a report over two files that both have findings, whose lists differ
\* from those of the scan in the other order
C25_Witness ==
    \E run \in Runs :
        /\ Succeeded(run)
        /\ Len(run.files) = 2
        /\ LET d == PostedOf(run, "analysisResult")[1].data
               e == ReportOver(workspaceFolders, <<run.files[2], run.files[1]>>,
                               d.lastScanned)
           IN  /\ e.securityIssues # d.securityIssues
               /\ e.performanceIssues # d.performanceIssues
               /\ e.godFiles # <<>>
               /\ e.allFiles # d.allFiles

(***************************************************************************)
(* C28: a call of analyzeWorkspace while no view has been resolved does    *)
(* nothing: as long as there is no view the command codepulse.analyze can  *)
(* be run, it cannot start a run, and no run exists, so that no event has  *)
(* been posted and no file discovery has been asked for.                   *)
(***************************************************************************)
C28_NoViewNoScan ==
    ~view =>
        /\ ENABLED (analyzeCommand /\ UNCHANGED vars)
        /\ ~ENABLED (analyzeCommand /\ runs' # runs)
        /\ runs = <<>>
        /\ channel = <<>>

\* the command can be run before the view is resolved, in a workspace with
\* files to scan
C28_Witness ==
    /\ ~view
    /\ workspaceFiles # <<>>
    /\ ENABLED (analyzeCommand /\ UNCHANGED vars)

(***************************************************************************)
(* C30: in every emitted report totalFiles is the length of allFiles,      *)
(* totalLines the sum of the lines of allFiles, unusedExports the length   *)
(* of unusedFiles, and circularDeps is 0.                                  *)
(***************************************************************************)
RECURSIVE SumOfLines(_)
SumOfLines(list) ==
    IF list = <<>> THEN 0 ELSE list[1].lines + SumOfLines(Tail(list))

C30_ReportTotals ==
    \A d \in Reports :
        /\ d.totalFiles = Len(d.allFiles)
        /\ d.totalLines = SumOfLines(d.allFiles)
        /\ d.unusedExports = Len(d.unusedFiles)
        /\ d.circularDeps = 0

\* a report over two files, one of them near-empty
C30_Witness ==
    \E d \in Reports :
        /\ d.totalFiles = 2
        /\ d.unusedExports = 1
        /\ d.totalLines = 644

(***************************************************************************)
(* C26: in the webview, whenever a run is in progress (its analysisStarted *)
(* has been handled and neither its analysisResult nor its analysisFailed  *)
(* has), the scanning flag is true.  Every run posts analysisStarted first *)
(* and at most one of analysisResult and analysisFailed, so a run is in    *)
(* progress exactly when more analysisStarted than results and failures    *)
(* have been handled.                                                      *)
(***************************************************************************)
Handled == SubSeq(channel, 1, app.handled)

HandledOf(types) == Len(SelectSeq(Handled, LAMBDA m : m.type \in types))

RunInProgress ==
    HandledOf({"analysisStarted"}) > HandledOf({"analysisResult", "analysisFailed"})

C26_ScanningWhileRunInProgress == RunInProgress => app.scanning

(***************************************************************************)
(* C27: every openFile message the webview posts carries an absolute path  *)
(* that the host can open, never the workspace-relative path of a finding. *)
(***************************************************************************)
C27_OpenFileCarriesAbsolutePath ==
    \A m \in app.sent :
        /\ IsAbsolutePath(m.path)
        /\ openTextDocumentFinds(m.path)

(***************************************************************************)
(* C29: in the webview the report on display changes only when an          *)
(* analysisResult is handled, and it is then the payload of that message;  *)
(* handling analysisStarted, progress or analysisFailed, a timer and a     *)
(* click leave it as it is, so that after a failed scan the report of the  *)
(* scan before is still on display.                                        *)
(***************************************************************************)
C29_DataOnlyFromAnalysisResult ==
    [][/\ app'.handled = app.handled + 1 =>
            LET msg == channel[app.handled + 1]
            IN  IF msg.type = "analysisResult"
                THEN app'.data = msg.data
                ELSE app'.data = app.data
       /\ app'.handled = app.handled => app'.data = app.data]_vars

\* the last message handled is an analysisFailed and the report of an
\* earlier scan is on display
C29_Witness ==
    /\ app.handled > 0
    /\ channel[app.handled].type = "analysisFailed"
    /\ app.data # EMPTY_DATA
    /\ app.data \in Reports

(***************************************************************************)
(* The webview taken alone.  The handler is registered on the window's     *)
(* message event and takes whatever is sent to it: here the channel is     *)
(* any sequence of at most MaxMessages messages of the provider's four     *)
(* types, in any order, the reports being those of a scan of no file and   *)
(* of a scan of one file with findings.  The provider takes no step.       *)
(***************************************************************************)
Inbox ==
    LET folders == <<[name |-> "ws", root |-> WorkspaceRoot]>>
    IN  { AnalysisStarted, Progress(FullProgress), AnalysisFailed,
          AnalysisResult(ReportOver(folders, <<>>, "09:00:00")),
          AnalysisResult(ReportOver(folders, SubSeq(ScanOrder, 2, 2), "09:00:01")) }

InitInbox ==
    /\ workspaceFolders = <<[name |-> "ws", root |-> WorkspaceRoot]>>
    /\ workspaceFiles = SubSeq(ScanOrder, 2, 2)
    /\ view = FALSE
    /\ runs = <<>>
    /\ channel \in UNION { [1..n -> Inbox] : n \in 0..MaxMessages }
    /\ app = mounted

NextInbox ==
    \/ onMessage
    \/ onTimeout
    \/ clickFileRow
    \/ clickFinding

SpecInbox == InitInbox /\ [][NextInbox]_vars

(***************************************************************************)
(* C31: in the webview, after any sequence of messages, the history of     *)
(* health scores holds at most 6 entries; handling an analysisResult makes *)
(* the history its 5 most recent entries followed by the healthScore of    *)
(* that report, and nothing else (another message, a timer, a click)       *)
(* changes the history.                                                    *)
(***************************************************************************)
MostRecent(h, n) ==
    IF Len(h) <= n THEN h ELSE [i \in 1..n |-> h[Len(h) - n + i]]

C31_HistoryKeepsSix ==
    /\ [](Len(app.history) <= 6)
    /\ [][IF /\ app'.handled = app.handled + 1
             /\ channel[app.handled + 1].type = "analysisResult"
          THEN app'.history
                 = Append(MostRecent(app.history, 5),
                          channel[app.handled + 1].data.healthScore)
          ELSE app'.history = app.history]_vars

\* three reports have been handled: the oldest of the four entries the
\* component was mounted with has been dropped
C31_Witness ==
    /\ app.handled = 3
    /\ Len(app.history) = 6
    /\ app.history[1] = 75
    /\ app.history[3] = 80
    /\ app.history[4] # app.history[6]

====
